---- MODULE Spec2Model ----
(***************************************************************************)
(* Prayer-time alarm scheduling, voice store, audio reference resolution   *)
(* and adhan playback of Adhan_new.                                        *)
(*                                                                         *)
(* services/notifications.ts : scheduleNotificationForPrayer,              *)
(*   cancelAllScheduledNotifications, scheduleDailyPrayerNotifications,    *)
(*   scheduleTestNotification                                              *)
(* services/prayerTimes.ts   : getPrayerTimesForDate                       *)
(* AppMain                   : the effect computing prayerTimes, onSchedule,*)
(*   the cancel button, onTestNotification, playAdhan and its listeners    *)
(* AppMain (the component of line 137): playAdhan with its fallback chain  *)
(* services/voicesManager.ts : downloadRemoteVoice, downloadVoice,         *)
(*   removeDownloadedVoice, setActiveVoice, getActiveVoice                 *)
(* components/AdhanVoiceSelector.tsx : getAdhanUrlForPrayer, saveSelection *)
(*                                                                         *)
(* Time is a counter of ticks; a calendar day is Day ticks long and the    *)
(* model's time line is the device's local wall clock.  The platform       *)
(* registry (expo-notifications) and the key-value store (AsyncStorage)    *)
(* are part of the state.  Every storage call, cancel call and register    *)
(* call of a handler may throw; which of them throw in one call is the     *)
(* handler's fault set F, chosen nondeterministically.  A handler runs as   *)
(* one step: the clock does not advance between its awaits.  playAdhan is  *)
(* the exception: it runs await by await, so that two invocations          *)
(* interleave.                                                             *)
(***************************************************************************)
EXTENDS Integers, Sequences, FiniteSets, TLC

\* ------------------------------------------------------------------ bounds
\* ticks per calendar day
Day == 7
\* last instant the clock reaches
MaxNow == 8
\* scheduling calls (daily runs, test alarms) in one behaviour
MaxCalls == 1
\* scheduling calls in one behaviour of SpecRepeat
MaxRepeatCalls == 2
\* storage / platform calls that throw in one behaviour
MaxFaults == 1
\* voices of the voice store's catalogue that are installed and removed
MaxVoices == 2
\* voices of the adhan catalogue that can be selected
MaxAdhanVoices == 2
\* invocations of playAdhan in one behaviour
MaxPlays == 2

\* runs of onSchedule in flight at once
MaxRuns == 2

\* entries of the map that a run taken await by await is given
MaxEntries == 3

\* calculation methods the user can choose from
MaxMethods == 2

\* runs of the prayer-time effect in flight at once
MaxEffects == 2

\* --------------------------------------------------------------- constants
\* prayerTimes before the effect has stored a map (null)
NoTimes == <<>>

\* Object.entries order of the map built by getPrayerTimesForDate
Order == <<"fajr", "sunrise", "dhuhr", "asr", "maghrib", "isha">>

Names == {Order[i] : i \in 1..Len(Order)}

\* wall-clock tick of each instant inside its day (fajr < ... < isha)
Offset == [fajr |-> 0, sunrise |-> 1, dhuhr |-> 2, asr |-> 4, maghrib |-> 5, isha |-> 6]

\* minutesFromNow arguments tried on scheduleTestNotification
DelayMinutes == {-1, 0, 1}

\* a file path or URL is the tuple of the pieces the code concatenates:
\* directory, file-name prefix, identifier, extension
\* undefined (no voicePath)
NoPath == <<>>

\* documentDirectory + `voices/voice-${id}.wav`
VoicePath(id) == <<"voices/", "voice-", id, ".wav">>

\* documentDirectory + `adhan-synthetic-${variant}.wav`
SyntheticPath(variant) == <<"", "adhan-synthetic-", variant, ".wav">>

\* documentDirectory + `adhan/${voice.id}.mp3`
AdhanPath(id) == <<"adhan/", "", id, ".mp3">>

\* 'https://www.islamcan.com/audio/adhan/azan<n>.mp3'
Url(name) == <<"https://www.islamcan.com/audio/adhan/", "", name, ".mp3">>

\* require('../assets/adhan.mp3')
BundledAsset == <<"../assets/", "", "adhan", ".mp3">>

\* 'https://actions.google.com/sounds/v1/alarms/beep_short.ogg'
FallbackUrl == <<"https://actions.google.com/sounds/v1/alarms/", "", "beep_short", ".ogg">>

\* AVAILABLE_SYNTHETIC_VOICES and DEMO_REMOTE_LIST, taken in turn
VoiceCatalogue == <<"default", "remote-a", "deep", "remote-b", "bright", "remote-c">>

SyntheticIds == {VoiceCatalogue[i] : i \in {j \in 1..MaxVoices : j % 2 = 1}}

RemoteIds == {VoiceCatalogue[i] : i \in {j \in 1..MaxVoices : j % 2 = 0}}

VoiceIds == SyntheticIds \cup RemoteIds

\* ACTIVE_VOICE_ID absent (null)
NoVoice == ""

\* ADHAN_VOICES: the regular and the fajr voices, taken in turn
AdhanCatalogue ==
    << [id |-> "makkah-regular",  type |-> "regular", previewUrl |-> Url("azan1")],
       [id |-> "makkah-fajr",     type |-> "fajr",    previewUrl |-> Url("azan7")],
       [id |-> "madinah-regular", type |-> "regular", previewUrl |-> Url("azan2")],
       [id |-> "madinah-fajr",    type |-> "fajr",    previewUrl |-> Url("azan8")],
       [id |-> "mishary-regular", type |-> "regular", previewUrl |-> Url("azan3")],
       [id |-> "mishary-fajr",    type |-> "fajr",    previewUrl |-> Url("azan9")] >>

ADHAN_VOICES == {AdhanCatalogue[i] : i \in 1..MaxAdhanVoices}

\* SELECTED_REGULAR_ADHAN / SELECTED_FAJR_ADHAN absent (null)
NoSelection == ""

\* an id stored by a release whose catalogue had other voices
UnknownVoice == "unknown-voice"

SelectionValues == {NoSelection, UnknownVoice} \cup {v.id : v \in ADHAN_VOICES}

\* the prayerName arguments tried on getAdhanUrlForPrayer
PrayerNameInputs == Names \cup {"Fajr", "Dhuhr"}

\* the awaited calls of getAdhanUrlForPrayer that can throw
ResolverFaults == {"getItem", "getInfoAsync"}

\* the value of a rejected promise
Rejected == "<rejected>"

\* the notification listeners that call playAdhan
Listeners == {"received", "response"}

\* soundRef.current = null
NoSound == 0

VARIABLES
    now,          \* the device clock (new Date())
    prayerTimes,  \* AppMain state: the PrayerTimesMap, or null
    scheduled,    \* AppMain state: the 'scheduled' flag
    pending,      \* platform registry: the alarms pending
    nextId,       \* platform registry: next identifier handed out
    stored,       \* AsyncStorage[SCHEDULED_ADHAN_IDS]; <<>> when absent
    callsLeft,    \* scheduling calls the behaviour may still make
    faults,       \* storage / platform calls that have thrown so far
    lastEffect,   \* outcome of the last run of the prayer-time effect
    lastCall,     \* the last call of an exported scheduler function
    downloaded,   \* AsyncStorage[DOWNLOADED_VOICES]; <<>> when absent
    files,        \* the files under documentDirectory
    activeVoice,  \* AsyncStorage[ACTIVE_VOICE_ID]
    selected,     \* AsyncStorage[SELECTED_REGULAR_ADHAN], [SELECTED_FAJR_ADHAN]
    lastVoice,    \* the last call of a voicesManager function
    lastResolve,  \* the last call of getAdhanUrlForPrayer
    mounted,      \* which AppMain is mounted: the one of line 137 or of line 502
    silentMode,   \* AppMain state: silentMode as playAdhan reads it
    soundRef,     \* soundRef.current: a sound, or NoSound
    loaded,       \* expo-av: the sounds created and not unloaded
    playing,      \* expo-av: the sounds that are playing
    nextSound,    \* expo-av: next sound handed out by createAsync
    calls,        \* the invocation of playAdhan of each listener
    playsLeft,    \* invocations of playAdhan the behaviour may still make
    overlapped,   \* an invocation has begun while another was in flight
    faulted,      \* an await of playAdhan has failed on the platform's side
    method,       \* AppMain state: the calculation method selected
    effects,      \* the runs of the prayer-time effect that have not returned
    timesMethod,  \* the method prayerTimes was computed with
    listenerSilent, \* silentMode as the registered listeners' playAdhan closes over it
    storedSilent, \* AsyncStorage[SILENT_MODE_KEY]; "" when absent
    runs,         \* the runs of onSchedule that have not returned
    downloadedVoices,  \* AdhanVoiceSelector state: downloadedVoices
    storedAdhanVoices, \* AsyncStorage[DOWNLOADED_ADHAN_VOICES]; <<>> when absent
    playingId,    \* AdhanVoiceSelector state: playingId, or ""
    downloads,    \* the download calls made, in flight or returned
    previews      \* the playPreview calls that have not returned

schedVars == <<now, prayerTimes, scheduled, pending, nextId, stored, callsLeft, faults, lastEffect, lastCall>>

voiceVars == <<downloaded, files, activeVoice, selected, lastVoice, lastResolve>>

playVars == <<mounted, silentMode, soundRef, loaded, playing, nextSound, calls, playsLeft, overlapped, faulted>>

appVars == <<method, effects, timesMethod, listenerSilent, storedSilent>>

runVars == <<runs>>

selVars == <<downloadedVoices, storedAdhanVoices, playingId, downloads, previews>>

asyncVars == <<appVars, runVars, selVars>>

vars == <<now, prayerTimes, scheduled, pending, nextId, stored, callsLeft, faults, lastEffect, lastCall,
          downloaded, files, activeVoice, selected, lastVoice, lastResolve,
          mounted, silentMode, soundRef, loaded, playing, nextSound, calls, playsLeft, overlapped, faulted,
          method, effects, timesMethod, listenerSilent, storedSilent, runs,
          downloadedVoices, storedAdhanVoices, playingId, downloads, previews>>

\* ------------------------------------------------------------------ helpers
Range(s) == {s[i] : i \in 1..Len(s)}

Today(t) == t \div Day

\* Date.setDate(getDate() + 1): same wall-clock time on the next calendar day
AddDay(t) == t + Day

\* toISOString().slice(0, 10)
IsoDate(t) == t \div Day

RECURSIVE KSubsets(_, _)
\* the subsets of S with at most k elements
KSubsets(S, k) ==
    IF k = 0 THEN {{}}
    ELSE LET smaller == KSubsets(S, k - 1)
         IN  smaller \cup {T \cup {x} : T \in smaller, x \in S}

Fault(kind, arg) == [kind |-> kind, arg |-> arg]

\* the calls of one scheduler operation that can throw
FaultPoints ==
    {Fault("getItem", 0), Fault("removeItem", 0)}
    \cup {Fault("cancel", id) : id \in Range(stored)}
    \cup {Fault("register", i) : i \in 1..Len(Order)}
    \cup {Fault("persist", i) : i \in 1..Len(Order)}

FaultSets == KSubsets(FaultPoints, MaxFaults - faults)

\* the part of the state the scheduler functions work on
Sys == [pending |-> pending, stored |-> stored, nextId |-> nextId]

\* ------------------------------------------------- services/adhanVoices.ts
\* ADHAN_VOICES.find(v => v.id === id): the voice, or {} for undefined
getAdhanVoiceById(id) == {v \in ADHAN_VOICES : v.id = id}

\* --------------------------------------- components/AdhanVoiceSelector.tsx
\* String.prototype.toLowerCase on the names tried
ToLowerCase(s) ==
    CASE s = "Fajr" -> "fajr"
      [] s = "Dhuhr" -> "dhuhr"
      [] OTHER -> s

\* variant without the catch: a failing read rejects
getSelectedRegularAdhanNoCatch(sel, F) ==
    IF "getItem" \in F THEN Rejected
    ELSE IF sel.regular # NoSelection THEN sel.regular ELSE "makkah-regular"

getSelectedRegularAdhan(sel, F) ==
    IF "getItem" \in F THEN "makkah-regular"
    ELSE IF sel.regular # NoSelection THEN sel.regular ELSE "makkah-regular"

getSelectedFajrAdhan(sel, F) ==
    IF "getItem" \in F THEN "makkah-fajr"
    ELSE IF sel.fajr # NoSelection THEN sel.fajr ELSE "makkah-fajr"

\* getAdhanUrlForPrayer with the stored selections sel, the files fs and the
\* set F of its awaited calls that throw
getAdhanUrlForPrayer(prayerName, sel, fs, F) ==
    LET isFajr == ToLowerCase(prayerName) = "fajr"
        selectedId == IF isFajr THEN getSelectedFajrAdhan(sel, F)
                      ELSE getSelectedRegularAdhan(sel, F)
        voice == getAdhanVoiceById(selectedId)
    IN  IF selectedId = Rejected
        THEN [threw |-> TRUE, url |-> NoPath]
        ELSE IF voice = {}
        THEN [threw |-> FALSE,
              url |-> IF isFajr THEN Url("azan7") ELSE Url("azan1")]
        ELSE LET v == CHOOSE x \in voice : TRUE
                 localPath == AdhanPath(v.id)
             IN  IF "getInfoAsync" \notin F /\ localPath \in fs
                 THEN [threw |-> FALSE, url |-> localPath]
                 ELSE [threw |-> FALSE, url |-> v.previewUrl]

\* the references await getAdhanUrlForPrayer(prayerName) can give in the
\* current state, over the outcomes of its awaited calls
ResolvedUrls(prayerName) ==
    {getAdhanUrlForPrayer(prayerName, selected, files, R).url : R \in SUBSET ResolverFaults}

\* ----------------------------------------------- services/voicesManager.ts
\* VoiceMeta {id, name, path, variant}; name and variant repeat the id
VoiceMeta(id, path) == [id |-> id, path |-> path]

\* null
NoMeta == VoiceMeta("", NoPath)

\* arr.filter((a) => a.id !== id)
FilterOut(arr, id) == SelectSeq(arr, LAMBDA a : a.id # id)

\* arr.find((a) => a.id === id) || null
Find(arr, id) ==
    IF \E i \in 1..Len(arr) : arr[i].id = id
    THEN arr[CHOOSE i \in 1..Len(arr) :
               arr[i].id = id /\ \A j \in 1..(i - 1) : arr[j].id # id]
    ELSE NoMeta

\* the part of the state the voicesManager functions work on
Store == [downloaded |-> downloaded, files |-> files, activeVoice |-> activeVoice]

\* the awaited calls of each function, in the order of the code
DownloadRemoteSteps == {"makeDirectoryAsync", "deleteAsync", "downloadAsync", "getItem", "setItem"}

DownloadSteps == {"makeDirectoryAsync", "generateSyntheticAdhan", "copyAsync", "getItem", "setItem"}

RemoveSteps == {"getItem", "setItem", "getInfoAsync", "deleteAsync", "getItemActive", "removeItem"}

SetActiveSteps == {"setItem"}

GetActiveSteps == {"getItem", "getItemList"}

\* variant that records the voice before fetching it
downloadRemoteVoiceIndexFirst(v, remote, fail) ==
    LET newPath == VoicePath(remote)
        meta == VoiceMeta(remote, newPath)
        recorded == [v EXCEPT !.downloaded = Append(FilterOut(v.downloaded, remote), meta)]
    IN  CASE fail \in {"makeDirectoryAsync", "deleteAsync"} ->
               [v |-> recorded, result |-> NoMeta, threw |-> FALSE]
          [] fail = "downloadAsync" ->
               [v |-> [recorded EXCEPT !.files = @ \ {newPath}],
                result |-> NoMeta, threw |-> FALSE]
          [] fail \in {"getItem", "setItem"} ->
               [v |-> [recorded EXCEPT !.files = @ \cup {newPath}],
                result |-> NoMeta, threw |-> FALSE]
          [] OTHER ->
               [v |-> [recorded EXCEPT !.files = @ \cup {newPath}],
                result |-> meta, threw |-> FALSE]

\* downloadRemoteVoice(remote); fail: the awaited call that throws, or "none"
downloadRemoteVoice(v, remote, fail) ==
    LET newPath == VoicePath(remote)
        meta == VoiceMeta(remote, newPath)
    IN  CASE fail \in {"makeDirectoryAsync", "deleteAsync"} ->
               [v |-> v, result |-> NoMeta, threw |-> FALSE]
          [] fail = "downloadAsync" ->
               [v |-> [v EXCEPT !.files = @ \ {newPath}],
                result |-> NoMeta, threw |-> FALSE]
          [] fail \in {"getItem", "setItem"} ->
               [v |-> [v EXCEPT !.files = @ \cup {newPath}],
                result |-> NoMeta, threw |-> FALSE]
          [] OTHER ->
               [v |-> [v EXCEPT !.files = @ \cup {newPath},
                                !.downloaded = Append(FilterOut(@, remote), meta)],
                result |-> meta, threw |-> FALSE]

\* variant that records the generated file instead of its copy
downloadVoiceNoCopy(v, voiceId, fail) ==
    LET path == SyntheticPath(voiceId)
        meta == VoiceMeta(voiceId, path)
    IN  CASE fail \in {"makeDirectoryAsync", "generateSyntheticAdhan"} ->
               [v |-> v, result |-> NoMeta, threw |-> FALSE]
          [] fail \in {"copyAsync", "getItem", "setItem"} ->
               [v |-> [v EXCEPT !.files = @ \cup {path}],
                result |-> NoMeta, threw |-> FALSE]
          [] OTHER ->
               [v |-> [v EXCEPT !.files = @ \cup {path},
                                !.downloaded = Append(FilterOut(@, voiceId), meta)],
                result |-> meta, threw |-> FALSE]

\* downloadVoice(voiceId); generateSyntheticAdhan writes the synthetic file
downloadVoice(v, voiceId, fail) ==
    LET path == SyntheticPath(voiceId)
        newPath == VoicePath(voiceId)
        meta == VoiceMeta(voiceId, newPath)
    IN  CASE fail \in {"makeDirectoryAsync", "generateSyntheticAdhan"} ->
               [v |-> v, result |-> NoMeta, threw |-> FALSE]
          [] fail = "copyAsync" ->
               [v |-> [v EXCEPT !.files = @ \cup {path}],
                result |-> NoMeta, threw |-> FALSE]
          [] fail \in {"getItem", "setItem"} ->
               [v |-> [v EXCEPT !.files = @ \cup {path, newPath}],
                result |-> NoMeta, threw |-> FALSE]
          [] OTHER ->
               [v |-> [v EXCEPT !.files = @ \cup {path, newPath},
                                !.downloaded = Append(FilterOut(@, voiceId), meta)],
                result |-> meta, threw |-> FALSE]

\* variant that leaves the active pointer alone
removeDownloadedVoiceKeepsActive(v, voiceId, fail) ==
    LET keep == FilterOut(v.downloaded, voiceId)
        path == VoicePath(voiceId)
        v1 == [v EXCEPT !.downloaded = keep]
        v2 == [v1 EXCEPT !.files = @ \ {path}]
    IN  IF fail \in {"getItem", "setItem"}
        THEN [v |-> v, result |-> NoMeta, threw |-> TRUE]
        ELSE IF fail = "getInfoAsync" \/ (fail = "deleteAsync" /\ path \in v.files)
        THEN [v |-> v1, result |-> NoMeta, threw |-> TRUE]
        ELSE [v |-> v2, result |-> NoMeta, threw |-> FALSE]

\* removeDownloadedVoice(voiceId): no call of it is guarded by a try
removeDownloadedVoice(v, voiceId, fail) ==
    LET keep == FilterOut(v.downloaded, voiceId)
        path == VoicePath(voiceId)
        v1 == [v EXCEPT !.downloaded = keep]
        v2 == [v1 EXCEPT !.files = @ \ {path}]
    IN  IF fail \in {"getItem", "setItem"}
        THEN [v |-> v, result |-> NoMeta, threw |-> TRUE]
        ELSE IF fail = "getInfoAsync" \/ (fail = "deleteAsync" /\ path \in v.files)
        THEN [v |-> v1, result |-> NoMeta, threw |-> TRUE]
        ELSE IF fail = "getItemActive" \/ (fail = "removeItem" /\ v.activeVoice = voiceId)
        THEN [v |-> v2, result |-> NoMeta, threw |-> TRUE]
        ELSE [v |-> IF v.activeVoice = voiceId
                    THEN [v2 EXCEPT !.activeVoice = NoVoice] ELSE v2,
              result |-> NoMeta, threw |-> FALSE]

\* setActiveVoice(voiceId); a falsy voiceId removes the key
setActiveVoice(v, voiceId, fail) ==
    IF fail = "setItem"
    THEN [v |-> v, result |-> NoMeta, threw |-> TRUE]
    ELSE [v |-> [v EXCEPT !.activeVoice = voiceId], result |-> NoMeta, threw |-> FALSE]

\* getActiveVoice(): the record of the active id in the list, or null
getActiveVoice(v, fail) ==
    IF fail = "getItem"
    THEN [v |-> v, result |-> NoMeta, threw |-> TRUE]
    ELSE IF v.activeVoice = NoVoice
    THEN [v |-> v, result |-> NoMeta, threw |-> FALSE]
    ELSE IF fail = "getItemList"
    THEN [v |-> v, result |-> NoMeta, threw |-> TRUE]
    ELSE [v |-> v, result |-> Find(v.downloaded, v.activeVoice), threw |-> FALSE]

\* ------------------------------------------------------- fetchRemoteVoices
\* the built-in list returned when no URL is given
DEMO_REMOTE_LIST == <<"remote-a", "remote-b", "remote-c">>

\* url absent (undefined or empty)
NoUrl == ""

RemoteListUrls == {NoUrl, "https://voices/list.json"}

\* what res.json() can yield: a parsed value, or a throw on an invalid body
JsonValues ==
    {[kind |-> "array", items |-> xs] :
        xs \in {<<>>, <<"remote-b">>, <<"remote-c", "remote-a">>}}
    \cup {[kind |-> k, items |-> <<>>] : k \in {"object", "null", "invalid"}}

\* what fetch(url) can yield: a rejection, or a response with its status
FetchOutcomes ==
    {[rejects |-> TRUE, ok |-> FALSE, json |-> [kind |-> "null", items |-> <<>>]]}
    \cup [rejects : {FALSE}, ok : BOOLEAN, json : JsonValues]

NoFetch == [url |-> NoUrl, res |-> CHOOSE o \in FetchOutcomes : o.rejects,
            list |-> <<>>]

\* Array.isArray(data) ? data : []
ArrayOrEmpty(data) == IF data.kind = "array" THEN data.items ELSE <<>>

fetchRemoteVoicesNoCatch(url, res) ==
    IF url = NoUrl
    THEN [threw |-> FALSE, list |-> DEMO_REMOTE_LIST]
    ELSE IF res.rejects
    THEN [threw |-> TRUE, list |-> <<>>]
    ELSE IF ~res.ok
    THEN [threw |-> FALSE, list |-> <<>>]
    ELSE IF res.json.kind = "invalid"
    THEN [threw |-> TRUE, list |-> <<>>]
    ELSE [threw |-> FALSE, list |-> ArrayOrEmpty(res.json)]

\* fetchRemoteVoices(url): fetch and json() sit in one try whose catch
\* returns the empty list
fetchRemoteVoices(url, res) ==
    IF url = NoUrl
    THEN [threw |-> FALSE, list |-> DEMO_REMOTE_LIST]
    ELSE IF res.rejects
    THEN [threw |-> FALSE, list |-> <<>>]
    ELSE IF ~res.ok
    THEN [threw |-> FALSE, list |-> <<>>]
    ELSE IF res.json.kind = "invalid"
    THEN [threw |-> FALSE, list |-> <<>>]
    ELSE [threw |-> FALSE, list |-> ArrayOrEmpty(res.json)]

\* ------------------------------------------------------- AppMain.playAdhan
\* one invocation of playAdhan: where it is, what it was given, the source
\* it is loading or starting, the sources it has tried with their outcome
NoInvocation ==
    [pc |-> "idle", voicePath |-> NoPath, src |-> "none", uri |-> NoPath,
     target |-> NoSound, sound |-> NoSound, tried |-> <<>>,
     started |-> FALSE, ran |-> FALSE, muted |-> FALSE]

Source(src, uri) == [src |-> src, uri |-> uri]

\* the call of Audio.Sound.createAsync on a source is issued
IssueCreate(c, f) == [c EXCEPT !.pc = "creating", !.src = f.src, !.uri = f.uri]

\* the invocation returns
Return(c) == [c EXCEPT !.pc = "idle"]

\* the first source an invocation loads.  AppMain of line 137: the payload's
\* voicePath, else the bundled asset.  AppMain of line 502:
\* voicePath || await getAdhanUrlForPrayer(..)
FirstSources(c) ==
    IF c.voicePath # NoPath
    THEN {Source("payload", c.voicePath)}
    ELSE IF mounted = "AppMain:137"
    THEN {Source("bundled", BundledAsset)}
    ELSE {Source("resolved", url) : url \in ResolvedUrls("dhuhr")}

\* files.find(f => f.startsWith('voice-')) in voices/
VoiceFiles == {p \in files : p[1] = "voices/" /\ p[2] = "voice-"}

\* entries.find(e => e.startsWith('adhan-synthetic')) in documentDirectory
SyntheticFiles == {p \in files : p[1] = "" /\ p[2] = "adhan-synthetic-"}

\* where an invocation goes when loading or starting its source has thrown.
\* AppMain of line 137: the catch of the payload block falls through to the bundled asset;
\* the catch of the bundled block looks for a voice file, then a synthetic
\* file, then takes the remote beep (a throwing file-system call ends the
\* invocation); the catch of that block ends the invocation.
\* AppMain of line 502: the catch ends the invocation.
AfterFailure(c) ==
    IF mounted = "AppMain:137" /\ c.src = "payload"
    THEN {IssueCreate(c, Source("bundled", BundledAsset))}
    ELSE IF mounted = "AppMain:137" /\ c.src = "bundled"
    THEN {Return(c)}
         \cup (IF VoiceFiles # {}
               THEN {IssueCreate(c, Source("voiceFile", p)) : p \in VoiceFiles}
               ELSE IF SyntheticFiles # {}
               THEN {IssueCreate(c, Source("synthetic", p)) : p \in SyntheticFiles}
               ELSE {IssueCreate(c, Source("remote", FallbackUrl))})
    ELSE {Return(c)}

\* ------------------------------------------------- services/prayerTimes.ts
getPrayerTimesForDate(date) == [n \in Names |-> date * Day + Offset[n]]

\* --------------------------------------------------- AppMain, the effects
\* the first entries of METHODS
METHODS == <<"MuslimWorldLeague", "NorthAmerica", "Egyptian", "Karachi">>

Methods == {METHODS[i] : i \in 1..MaxMethods}

RemoveAt(seq, i) == SubSeq(seq, 1, i - 1) \o SubSeq(seq, i + 1, Len(seq))

\* a run of the effect of [method]: the method and the 'active' flag of its
\* closure, and the await it is at
TimesEffect(m) == [kind |-> "times", method |-> m, active |-> TRUE, pc |-> "permission"]

\* the run of the mount effect that reads the stored settings
SettingsEffect == [kind |-> "settings", method |-> "", active |-> TRUE, pc |-> "getItem"]

\* the cleanup of the effect of [method]: active = false
Cleanup(es) ==
    [i \in DOMAIN es |-> IF es[i].kind = "times" THEN [es[i] EXCEPT !.active = FALSE]
                         ELSE es[i]]

ComputedUnguarded(e, times, by, day) ==
    [times |-> getPrayerTimesForDate(day), by |-> e.method, outcome |-> "ok"]

\* const times = getPrayerTimesForDate(new Date(), lat, lon, method);
\* if (active) setPrayerTimes(times);
Computed(e, times, by, day) ==
    IF e.active
    THEN [times |-> getPrayerTimesForDate(day), by |-> e.method, outcome |-> "ok"]
    ELSE [times |-> times, by |-> by, outcome |-> "superseded"]

\* ----------------------------------------------- services/notifications.ts
\* scheduleNotificationForPrayer; persistThrows: getItem / setItem throws
scheduleNotificationForPrayer(s, idTag, date, voicePath, persistThrows) ==
    LET id == s.nextId
        alarm == [id |-> id, idTag |-> idTag, date |-> date, voicePath |-> voicePath]
    IN  [pending |-> s.pending \cup {alarm},
         nextId  |-> s.nextId + 1,
         stored  |-> IF persistThrows THEN s.stored ELSE Append(s.stored, id)]

cancelAllScheduledNotifications(s, F) ==
    IF Fault("getItem", 0) \in F THEN s
    ELSE LET arr == s.stored
             rejected == {id \in Range(arr) : Fault("cancel", id) \in F}
             cancelled == Range(arr) \ rejected
         IN  [pending |-> {a \in s.pending : a.id \notin cancelled},
              nextId  |-> s.nextId,
              stored  |-> IF rejected # {} \/ Fault("removeItem", 0) \in F
                          THEN s.stored ELSE <<>>]

RECURSIVE ScheduleEntries(_, _, _, _, _, _)
RECURSIVE ScheduleEntriesShort(_, _, _, _, _, _)

\* variant: an instant equal to now is not rolled
RollConditionStrict(scheduledDate, t) == scheduledDate < t

\* line 78: if (scheduledDate <= now)
RollCondition(scheduledDate, t) == scheduledDate <= t

\* variant of the loop that stops one entry early
ScheduleEntriesShort(acc, i, map, voicePath, t, F) ==
    IF i > Len(Order) - 1 THEN acc
    ELSE LET name == Order[i]
             dt == map[name]
             scheduledDate == IF RollCondition(dt, t) THEN AddDay(dt) ELSE dt
             idTag == [name |-> name, iso |-> IsoDate(scheduledDate)]
         IN  IF Fault("register", i) \in F
             THEN [acc EXCEPT !.threw = TRUE]
             ELSE ScheduleEntriesShort(
                    [s |-> scheduleNotificationForPrayer(acc.s, idTag, scheduledDate,
                                voicePath, Fault("persist", i) \in F),
                     scheduled |-> Append(acc.scheduled, acc.s.nextId),
                     threw |-> FALSE],
                    i + 1, map, voicePath, t, F)

\* the for loop of scheduleDailyPrayerNotifications from entry i on
ScheduleEntries(acc, i, map, voicePath, t, F) ==
    IF i > Len(Order) THEN acc
    ELSE LET name == Order[i]
             dt == map[name]
             scheduledDate == IF RollCondition(dt, t) THEN AddDay(dt) ELSE dt
             idTag == [name |-> name, iso |-> IsoDate(scheduledDate)]
         IN  IF Fault("register", i) \in F
             THEN [acc EXCEPT !.threw = TRUE]
             ELSE ScheduleEntries(
                    [s |-> scheduleNotificationForPrayer(acc.s, idTag, scheduledDate,
                                voicePath, Fault("persist", i) \in F),
                     scheduled |-> Append(acc.scheduled, acc.s.nextId),
                     threw |-> FALSE],
                    i + 1, map, voicePath, t, F)

scheduleDailyPrayerNotifications(s, map, voicePath, t, F) ==
    LET s1 == cancelAllScheduledNotifications(s, F)
    IN  IF map = NoTimes
        THEN [s |-> s1, scheduled |-> <<>>, threw |-> TRUE]
        ELSE ScheduleEntries([s |-> s1, scheduled |-> <<>>, threw |-> FALSE],
                             1, map, voicePath, t, F)

scheduleTestNotification(s, minutesFromNow, voicePath, t, F) ==
    LET date == t + minutesFromNow
        idTag == [name |-> "test", iso |-> date]
    IN  IF Fault("register", 1) \in F
        THEN [s |-> s, id |-> 0, date |-> date, threw |-> TRUE]
        ELSE [s |-> scheduleNotificationForPrayer(s, idTag, date, voicePath,
                        Fault("persist", 1) \in F),
              id |-> s.nextId, date |-> date, threw |-> FALSE]

\* ------------------------------------------------------------------ actions
Install(s) ==
    /\ pending' = s.pending
    /\ stored' = s.stored
    /\ nextId' = s.nextId

NoCall == [op |-> "none", threw |-> FALSE, arg |-> 0, ids |-> <<>>,
           failed |-> {}, fired |-> FALSE]

NoVoiceOp == [op |-> "none", id |-> "", fail |-> "none", threw |-> FALSE,
              result |-> NoMeta, installed |-> "", fetched |-> NoFetch]

NoResolve == [op |-> "none", prayerName |-> "", failed |-> {}, threw |-> FALSE,
              url |-> NoPath]

\* a fresh install: nothing downloaded, nothing selected
VoiceIdle ==
    /\ downloaded = <<>>
    /\ files = {}
    /\ activeVoice = NoVoice
    /\ selected = [regular |-> NoSelection, fajr |-> NoSelection]
    /\ lastVoice = NoVoiceOp
    /\ lastResolve = NoResolve

\* no sound, no invocation of playAdhan
PlayIdle ==
    /\ mounted = "AppMain:502"
    /\ silentMode = FALSE
    /\ soundRef = NoSound
    /\ loaded = {}
    /\ playing = {}
    /\ nextSound = 1
    /\ calls = [l \in Listeners |-> NoInvocation]
    /\ playsLeft = 0
    /\ overlapped = FALSE
    /\ faulted = FALSE

\* the component as mounted, no effect in flight
AppIdle ==
    /\ method = "MuslimWorldLeague"
    /\ effects = <<>>
    /\ timesMethod = ""
    /\ listenerSilent = FALSE
    /\ storedSilent = ""

RunIdle == runs = <<>>

\* the voice selector as mounted, nothing downloaded
SelIdle ==
    /\ downloadedVoices = <<>>
    /\ storedAdhanVoices = <<>>
    /\ playingId = ""
    /\ downloads = <<>>
    /\ previews = <<>>

AsyncIdle == AppIdle /\ RunIdle /\ SelIdle

\* no prayer times, nothing scheduled
SchedIdle ==
    /\ now = 0
    /\ prayerTimes = NoTimes
    /\ scheduled = FALSE
    /\ pending = {}
    /\ nextId = 1
    /\ stored = <<>>
    /\ callsLeft = 0
    /\ faults = 0
    /\ lastEffect = "none"
    /\ lastCall = NoCall

InitWith(budget) ==
    /\ now = 0
    /\ prayerTimes = NoTimes
    /\ scheduled = FALSE
    /\ pending = {}
    /\ nextId = 1
    /\ stored = <<>>
    /\ callsLeft = budget
    /\ faults = 0
    /\ lastEffect = "none"
    /\ lastCall = NoCall
    /\ VoiceIdle
    /\ PlayIdle
    /\ AsyncIdle

Init == InitWith(MaxCalls)

InitRepeat == InitWith(MaxRepeatCalls)

\* the clock advances; the platform delivers a due alarm before it does
Tick ==
    /\ now < MaxNow
    /\ \A a \in pending : a.date > now
    /\ now' = now + 1
    /\ UNCHANGED <<prayerTimes, scheduled, pending, nextId, stored, callsLeft, faults, lastEffect, lastCall, voiceVars, playVars, asyncVars>>

\* AppMain effect (mount, or change of method): compute today's times
EffectComputeTimes ==
    /\ \E outcome \in {"ok", "denied", "raise"} :
         /\ lastEffect' = outcome
         /\ prayerTimes' = IF outcome = "ok"
                           THEN getPrayerTimesForDate(Today(now))
                           ELSE prayerTimes
         /\ timesMethod' = IF outcome = "ok" THEN method ELSE timesMethod
    /\ UNCHANGED <<now, scheduled, pending, nextId, stored, callsLeft, faults, lastCall, voiceVars, playVars>>
    /\ UNCHANGED <<method, effects, listenerSilent, storedSilent, runVars, selVars>>

\* AppMain.onSchedule; the button is rendered only with prayerTimes set
OnSchedule ==
    /\ prayerTimes # NoTimes
    /\ \E granted \in BOOLEAN :
         IF ~granted
         THEN UNCHANGED <<scheduled, pending, nextId, stored, callsLeft, faults, lastCall>>
         ELSE /\ callsLeft > 0
              /\ \E F \in FaultSets, adhanUrl \in ResolvedUrls("dhuhr") :
                   LET r == scheduleDailyPrayerNotifications(Sys, prayerTimes, adhanUrl, now, F)
                   IN  /\ Install(r.s)
                       /\ faults' = faults + Cardinality(F)
                       /\ callsLeft' = callsLeft - 1
                       /\ scheduled' = TRUE
                       /\ lastCall' = [op |-> "scheduleDaily", threw |-> r.threw,
                                       arg |-> 0, ids |-> r.scheduled, failed |-> F,
                                       fired |-> FALSE]
    /\ UNCHANGED <<now, prayerTimes, lastEffect, voiceVars, playVars, asyncVars>>

\* AppMain: the 'Cancel Notifications' button, rendered when scheduled
OnCancel ==
    /\ prayerTimes # NoTimes
    /\ scheduled
    /\ \E F \in FaultSets :
         /\ Install(cancelAllScheduledNotifications(Sys, F))
         /\ faults' = faults + Cardinality(F)
         /\ lastCall' = [op |-> "cancelAll", threw |-> FALSE, arg |-> 0,
                         ids |-> <<>>, failed |-> F, fired |-> FALSE]
    /\ scheduled' = FALSE
    /\ UNCHANGED <<now, prayerTimes, callsLeft, lastEffect, voiceVars, playVars, asyncVars>>

\* a call of the exported scheduleTestNotification(minutesFromNow, voicePath)
TestCall(minutesFromNow) ==
    /\ callsLeft > 0
    /\ \E F \in FaultSets, voicePath \in ResolvedUrls("dhuhr") :
         LET r == scheduleTestNotification(Sys, minutesFromNow, voicePath, now, F)
         IN  /\ Install(r.s)
             /\ faults' = faults + Cardinality(F)
             /\ callsLeft' = callsLeft - 1
             /\ lastCall' = [op |-> "scheduleTest", threw |-> r.threw,
                             arg |-> minutesFromNow,
                             ids |-> IF r.threw THEN <<>> ELSE <<r.id>>,
                             failed |-> F, fired |-> FALSE]
    /\ UNCHANGED <<now, prayerTimes, scheduled, lastEffect, voiceVars, playVars, asyncVars>>

\* AppMain.onTestNotification: the 'Test Notification (1 min)' button
OnTestNotification ==
    /\ prayerTimes # NoTimes
    /\ \E granted \in BOOLEAN :
         IF granted THEN TestCall(1) ELSE UNCHANGED vars

ScheduleTestNotificationCall ==
    \E minutesFromNow \in DelayMinutes : TestCall(minutesFromNow)

\* the platform delivers a due alarm
Fire ==
    \E a \in pending :
      /\ a.date <= now
      /\ pending' = pending \ {a}
      /\ lastCall' = [lastCall EXCEPT !.fired = TRUE]
      /\ UNCHANGED <<now, prayerTimes, scheduled, nextId, stored, callsLeft, faults, lastEffect, voiceVars, playVars, asyncVars>>

Next ==
    \/ Tick
    \/ EffectComputeTimes
    \/ OnSchedule
    \/ OnCancel
    \/ OnTestNotification
    \/ ScheduleTestNotificationCall
    \/ Fire

Spec == Init /\ [][Next]_vars

\* the same program, with room for a second scheduling call
SpecRepeat == InitRepeat /\ [][Next]_vars

\* ------------------------------------------------------ voice store actions
InitVoice == SchedIdle /\ VoiceIdle /\ PlayIdle /\ AsyncIdle

\* a call of a voicesManager function has completed with outcome r
VoiceCall(r, op, id, fail, installed) ==
    /\ downloaded' = r.v.downloaded
    /\ files' = r.v.files
    /\ activeVoice' = r.v.activeVoice
    /\ lastVoice' = [op |-> op, id |-> id, fail |-> fail, threw |-> r.threw,
                     result |-> r.result, installed |-> installed,
                     fetched |-> NoFetch]
    /\ UNCHANGED <<selected, lastResolve, schedVars, playVars, asyncVars>>

DownloadRemoteVoice ==
    \E remote \in RemoteIds, fail \in DownloadRemoteSteps \cup {"none"} :
      VoiceCall(downloadRemoteVoice(Store, remote, fail),
                "downloadRemoteVoice", remote, fail, "")

DownloadVoice ==
    \E voiceId \in SyntheticIds, fail \in DownloadSteps \cup {"none"} :
      VoiceCall(downloadVoice(Store, voiceId, fail),
                "downloadVoice", voiceId, fail, "")

RemoveDownloadedVoice ==
    \E voiceId \in VoiceIds, fail \in RemoveSteps \cup {"none"} :
      VoiceCall(removeDownloadedVoice(Store, voiceId, fail),
                "removeDownloadedVoice", voiceId, fail, "")

\* lastVoice.installed: the voice a downloadVoice that returned its record
\* and then a setActiveVoice that returned have just installed, if any
SetActiveVoice ==
    \E voiceId \in VoiceIds \cup {NoVoice}, fail \in SetActiveSteps \cup {"none"} :
      LET r == setActiveVoice(Store, voiceId, fail)
      IN  VoiceCall(r, "setActiveVoice", voiceId, fail,
                    IF /\ lastVoice.op = "downloadVoice"
                       /\ lastVoice.result # NoMeta
                       /\ lastVoice.id = voiceId
                       /\ ~r.threw
                    THEN voiceId ELSE "")

GetActiveVoice ==
    \E fail \in GetActiveSteps \cup {"none"} :
      VoiceCall(getActiveVoice(Store, fail), "getActiveVoice", activeVoice, fail,
                IF lastVoice.op = "setActiveVoice" THEN lastVoice.installed ELSE "")

\* a call of fetchRemoteVoices(url) has completed
FetchRemoteVoices ==
    /\ \E url \in RemoteListUrls, res \in FetchOutcomes :
         LET r == fetchRemoteVoices(url, res)
         IN  lastVoice' = [op |-> "fetchRemoteVoices", id |-> "", fail |-> "none",
                           threw |-> r.threw, result |-> NoMeta, installed |-> "",
                           fetched |-> [url |-> url, res |-> res, list |-> r.list]]
    /\ UNCHANGED <<downloaded, files, activeVoice, selected, lastResolve, schedVars, playVars, asyncVars>>

NextVoice ==
    \/ FetchRemoteVoices
    \/ DownloadRemoteVoice
    \/ DownloadVoice
    \/ RemoveDownloadedVoice
    \/ SetActiveVoice
    \/ GetActiveVoice

\* the voice store on its own
SpecVoice == InitVoice /\ [][NextVoice]_vars

\* ------------------------------------------- onSchedule, await by await
\* a run of onSchedule inside scheduleDailyPrayerNotifications: the await it
\* is at, its arguments, the list read by cancelAllScheduledNotifications
\* (old), the entry of the loop (i), the id just registered and the list
\* read to persist it (arr); listAtStart, cancelled, removed, created and
\* alone record what the run has met and done
NewRun(map, voicePath, list) ==
    [pc |-> "getItem", map |-> map, entries |-> SubSeq(Order, 1, MaxEntries),
     voicePath |-> voicePath, old |-> <<>>,
     i |-> 1, id |-> 0, arr |-> <<>>,
     listAtStart |-> list, cancelled |-> {}, removed |-> FALSE, created |-> <<>>,
     alone |-> TRUE]

\* the alarm of entry i of the loop, registered at instant t under id
EntryAlarm(r, t, id) ==
    LET name == r.entries[r.i]
        dt == r.map[name]
        scheduledDate == IF RollCondition(dt, t) THEN AddDay(dt) ELSE dt
    IN  [id |-> id, idTag |-> [name |-> name, iso |-> IsoDate(scheduledDate)],
         date |-> scheduledDate, voicePath |-> r.voicePath]

InitRuns ==
    /\ now = 0
    /\ prayerTimes = getPrayerTimesForDate(Today(0))
    /\ scheduled = FALSE
    /\ pending = {}
    /\ nextId = 1
    /\ stored = <<>>
    /\ callsLeft = MaxRepeatCalls
    /\ faults = 0
    /\ lastEffect = "ok"
    /\ lastCall = NoCall
    /\ VoiceIdle
    /\ PlayIdle
    /\ method = METHODS[1]
    /\ effects = <<>>
    /\ timesMethod = METHODS[1]
    /\ listenerSilent = FALSE
    /\ storedSilent = ""
    /\ RunIdle
    /\ SelIdle

\* a tap on the schedule button: onSchedule up to the first await of
\* cancelAllScheduledNotifications, with the permission granted and the
\* voice reference resolved
OnScheduleBegin ==
    /\ prayerTimes # NoTimes
    /\ callsLeft > 0
    /\ Len(runs) < MaxRuns
    /\ \E adhanUrl \in ResolvedUrls("dhuhr") :
         runs' = Append([k \in DOMAIN runs |-> [runs[k] EXCEPT !.alone = FALSE]],
                        [NewRun(prayerTimes, adhanUrl, stored)
                            EXCEPT !.alone = (runs = <<>>)])
    /\ callsLeft' = callsLeft - 1
    /\ UNCHANGED <<now, prayerTimes, scheduled, pending, nextId, stored, faults,
                   lastEffect, lastCall>>
    /\ UNCHANGED <<voiceVars, playVars, appVars, selVars>>

\* the run k returns to onSchedule, which sets the flag in its try block
\* and in its catch block alike
RunReturns(k, threw) ==
    /\ runs' = RemoveAt(runs, k)
    /\ scheduled' = TRUE
    /\ lastCall' = [op |-> "scheduleDaily", threw |-> threw, arg |-> 0,
                    ids |-> runs[k].created, failed |-> {}, fired |-> FALSE]

\* the loop of run k moves past entry i
NextEntry(k, r) ==
    IF r.i = Len(r.entries)
    THEN RunReturns(k, FALSE)
    ELSE /\ runs' = [runs EXCEPT ![k] = [r EXCEPT !.pc = "register", !.i = r.i + 1]]
         /\ UNCHANGED <<scheduled, lastCall>>

\* an await of run k settles; ok = FALSE: it rejects
RunStep ==
    /\ \E k \in DOMAIN runs, ok \in BOOLEAN :
         LET r == runs[k]
         IN  /\ ~ok => faults < MaxFaults
             /\ faults' = IF ok THEN faults ELSE faults + 1
             /\ \/ /\ r.pc = "getItem"
                   /\ runs' = [runs EXCEPT ![k] =
                                 IF ok THEN [r EXCEPT !.pc = "cancel", !.old = stored]
                                 ELSE [r EXCEPT !.pc = "register"]]
                   /\ UNCHANGED <<pending, nextId, stored, scheduled, lastCall>>
                \/ /\ r.pc = "cancel"
                   /\ ok \/ r.old # <<>>
                   /\ \E rejected \in (IF ok THEN {{}} ELSE {{id} : id \in Range(r.old)}) :
                        /\ pending' = {a \in pending :
                                          a.id \notin Range(r.old) \ rejected}
                        /\ runs' = [runs EXCEPT ![k] =
                                      [r EXCEPT !.pc = IF ok THEN "removeItem"
                                                       ELSE "register",
                                                !.cancelled = Range(r.old)]]
                   /\ UNCHANGED <<nextId, stored, scheduled, lastCall>>
                \/ /\ r.pc = "removeItem"
                   /\ stored' = IF ok THEN <<>> ELSE stored
                   /\ runs' = [runs EXCEPT ![k] = [r EXCEPT !.pc = "register",
                                                            !.removed = ok]]
                   /\ UNCHANGED <<pending, nextId, scheduled, lastCall>>
                \/ /\ r.pc = "register"
                   /\ IF ok
                      THEN /\ pending' = pending \cup {EntryAlarm(r, now, nextId)}
                           /\ nextId' = nextId + 1
                           /\ runs' = [runs EXCEPT ![k] =
                                         [r EXCEPT !.pc = "persistGet", !.id = nextId,
                                                   !.created = Append(@, nextId)]]
                           /\ UNCHANGED <<scheduled, lastCall>>
                      ELSE /\ RunReturns(k, TRUE)
                           /\ UNCHANGED <<pending, nextId>>
                   /\ UNCHANGED stored
                \/ /\ r.pc = "persistGet"
                   /\ IF ok
                      THEN /\ runs' = [runs EXCEPT ![k] =
                                         [r EXCEPT !.pc = "persistSet", !.arr = stored]]
                           /\ UNCHANGED <<scheduled, lastCall>>
                      ELSE NextEntry(k, r)
                   /\ UNCHANGED <<pending, nextId, stored>>
                \/ /\ r.pc = "persistSet"
                   /\ stored' = IF ok THEN Append(r.arr, r.id) ELSE stored
                   /\ NextEntry(k, r)
                   /\ UNCHANGED <<pending, nextId>>
    /\ UNCHANGED <<now, prayerTimes, callsLeft, lastEffect>>
    /\ UNCHANGED <<voiceVars, playVars, appVars, selVars>>

NextRuns ==
    \/ OnScheduleBegin
    \/ RunStep

\* the schedule button, with each run taken await by await
SpecRuns == InitRuns /\ [][NextRuns]_vars

\* --------------------------------------------- downloads, await by await
\* the awaited calls of each download function, in the order of the code
Awaits(fn) ==
    CASE fn = "downloadRemoteVoice" ->
           <<"makeDirectoryAsync", "deleteAsync", "downloadAsync", "getItem", "setItem">>
      [] fn = "downloadVoice" ->
           <<"makeDirectoryAsync", "generateSyntheticAdhan", "copyAsync", "getItem", "setItem">>
      [] fn = "selector.downloadVoice" ->
           <<"makeDirectoryAsync", "deleteAsync", "downloadAsync", "setItem">>

\* the voices each download function is called with
DownloadIds(fn) ==
    CASE fn = "downloadRemoteVoice" -> RemoteIds
      [] fn = "downloadVoice" -> SyntheticIds
      [] fn = "selector.downloadVoice" -> {v.id : v \in ADHAN_VOICES}

DownloadFns == {"downloadRemoteVoice", "downloadVoice", "selector.downloadVoice"}

\* the file a download function writes for voice id
DownloadPath(fn, id) ==
    IF fn = "selector.downloadVoice" THEN AdhanPath(id) ELSE VoicePath(id)

InitDownloads == SchedIdle /\ VoiceIdle /\ PlayIdle /\ AsyncIdle

\* a download function is called for a voice: the code up to its first
\* await; the selector's function closes over downloadedVoices of the render
\* whose button was tapped, and its button is rendered for a voice that is
\* not in that list
DownloadBegin ==
    /\ \E fn \in DownloadFns : \E id \in DownloadIds(fn) :
         /\ \A k \in DOMAIN downloads : downloads[k].id # id
         /\ fn = "selector.downloadVoice" => id \notin Range(downloadedVoices)
         /\ downloads' = Append(downloads,
                [fn |-> fn, id |-> id, at |-> 1, ok |-> FALSE,
                 arr |-> IF fn = "selector.downloadVoice" THEN downloadedVoices
                         ELSE <<>>])
    /\ UNCHANGED <<downloaded, files, activeVoice, selected, lastVoice, lastResolve>>
    /\ UNCHANGED <<downloadedVoices, storedAdhanVoices, playingId, previews>>
    /\ UNCHANGED <<schedVars, playVars, appVars, runVars>>

\* the await a download call is at settles; ok = FALSE: it rejects (or the
\* selector's download answers with a status other than 200) and the call
\* returns through its catch
DownloadStep ==
    /\ \E k \in DOMAIN downloads, ok \in BOOLEAN :
         LET d == downloads[k]
             await == Awaits(d.fn)[d.at]
             last == d.at = Len(Awaits(d.fn))
             path == DownloadPath(d.fn, d.id)
             read == CASE await = "getItem" -> downloaded
                       [] await = "downloadAsync" /\ d.fn = "selector.downloadVoice" ->
                            Append(d.arr, d.id)
                       [] OTHER -> d.arr
         IN  /\ d.at > 0
             /\ downloads' = [downloads EXCEPT ![k] =
                   IF ~ok THEN [d EXCEPT !.at = 0]
                   ELSE IF last THEN [d EXCEPT !.at = 0, !.ok = TRUE]
                   ELSE [d EXCEPT !.at = d.at + 1, !.arr = read]]
             /\ files' =
                   IF ~ok THEN files
                   ELSE CASE await = "deleteAsync" -> files \ {path}
                          [] await = "downloadAsync" -> files \cup {path}
                          [] await = "generateSyntheticAdhan" ->
                               files \cup {SyntheticPath(d.id)}
                          [] await = "copyAsync" -> files \cup {path}
                          [] OTHER -> files
             /\ downloadedVoices' =
                   IF ok /\ await = "downloadAsync" /\ d.fn = "selector.downloadVoice"
                   THEN read ELSE downloadedVoices
             /\ storedAdhanVoices' =
                   IF ok /\ await = "setItem" /\ d.fn = "selector.downloadVoice"
                   THEN d.arr ELSE storedAdhanVoices
             /\ downloaded' =
                   IF ok /\ await = "setItem" /\ d.fn # "selector.downloadVoice"
                   THEN Append(FilterOut(d.arr, d.id), VoiceMeta(d.id, path))
                   ELSE downloaded
    /\ UNCHANGED <<activeVoice, selected, lastVoice, lastResolve, playingId, previews>>
    /\ UNCHANGED <<schedVars, playVars, appVars, runVars>>

NextDownloads ==
    \/ DownloadBegin
    \/ DownloadStep

\* the download functions, with each call taken await by await
SpecDownloads == InitDownloads /\ [][NextDownloads]_vars

\* ------------------------------------ selector previews, await by await
InitPreview ==
    /\ SchedIdle
    /\ VoiceIdle
    /\ AsyncIdle
    /\ mounted = "AppMain:502"
    /\ silentMode = FALSE
    /\ soundRef = NoSound
    /\ loaded = {}
    /\ playing = {}
    /\ nextSound = 1
    /\ calls = [l \in Listeners |-> NoInvocation]
    /\ playsLeft = MaxPlays
    /\ overlapped = FALSE
    /\ faulted = FALSE

\* a tap on a voice's play button: playPreview up to the first await of
\* stopPlaying, which has taken the sound out of soundRef; toggle: the
\* render tapped showed this voice as playing
PlayPreviewBegin ==
    /\ playsLeft > 0
    /\ \E voice \in ADHAN_VOICES :
         previews' = Append(previews,
            [voice |-> voice.id, toggle |-> (playingId = voice.id),
             currentSound |-> soundRef,
             pc |-> IF soundRef # NoSound THEN "stopAsync" ELSE "stopPlaying"])
    /\ soundRef' = NoSound
    /\ playingId' = ""
    /\ playsLeft' = playsLeft - 1
    /\ overlapped' = (overlapped \/ previews # <<>>)
    /\ UNCHANGED <<mounted, silentMode, loaded, playing, nextSound, calls, faulted>>
    /\ UNCHANGED <<downloadedVoices, storedAdhanVoices, downloads>>
    /\ UNCHANGED <<schedVars, voiceVars, appVars, runVars>>

\* await stopPlaying() has settled in call k: return on a toggle, else
\* setPlayingId(voice.id) and on to getInfoAsync
AfterStop(k, p) ==
    IF p.toggle
    THEN /\ previews' = RemoveAt(previews, k)
         /\ UNCHANGED playingId
    ELSE /\ previews' = [previews EXCEPT ![k] = [p EXCEPT !.pc = "getInfoAsync"]]
         /\ playingId' = p.voice

\* the catch of playPreview
PreviewFails(k) ==
    /\ previews' = RemoveAt(previews, k)
    /\ playingId' = ""

\* the await call k is at settles; ok = FALSE: it rejects
PreviewStep ==
    /\ \E k \in DOMAIN previews, ok \in BOOLEAN :
         LET p == previews[k]
             isLoaded == \E s \in loaded : s.id = p.currentSound
         IN  /\ faulted' = (faulted \/ ~ok)
             /\ \/ /\ p.pc = "stopPlaying"
                   /\ ok
                   /\ AfterStop(k, p)
                   /\ UNCHANGED <<soundRef, loaded, playing, nextSound>>
                \/ /\ p.pc = "stopAsync"
                   /\ ok => isLoaded
                   /\ IF ok
                      THEN /\ playing' = playing \ {p.currentSound}
                           /\ previews' = [previews EXCEPT ![k] =
                                             [p EXCEPT !.pc = "unloadAsync"]]
                           /\ UNCHANGED playingId
                      ELSE /\ AfterStop(k, p)
                           /\ UNCHANGED playing
                   /\ UNCHANGED <<soundRef, loaded, nextSound>>
                \/ /\ p.pc = "unloadAsync"
                   /\ loaded' = IF ok THEN {s \in loaded : s.id # p.currentSound}
                                 ELSE loaded
                   /\ AfterStop(k, p)
                   /\ UNCHANGED <<soundRef, playing, nextSound>>
                \/ /\ p.pc = "getInfoAsync"
                   /\ IF ok
                      THEN /\ previews' = [previews EXCEPT ![k] =
                                             [p EXCEPT !.pc = "createAsync"]]
                           /\ UNCHANGED playingId
                      ELSE PreviewFails(k)
                   /\ UNCHANGED <<soundRef, loaded, playing, nextSound>>
                \/ /\ p.pc = "createAsync"
                   /\ IF ok
                      THEN /\ loaded' = loaded \cup {[id |-> nextSound, by |-> p.voice]}
                           /\ playing' = playing \cup {nextSound}
                           /\ nextSound' = nextSound + 1
                           /\ soundRef' = nextSound
                           /\ previews' = RemoveAt(previews, k)
                           /\ UNCHANGED playingId
                      ELSE /\ PreviewFails(k)
                           /\ UNCHANGED <<soundRef, loaded, playing, nextSound>>
    /\ UNCHANGED <<mounted, silentMode, calls, playsLeft, overlapped>>
    /\ UNCHANGED <<downloadedVoices, storedAdhanVoices, downloads>>
    /\ UNCHANGED <<schedVars, voiceVars, appVars, runVars>>

\* a preview sound plays to its end: the status callback of its createAsync
PreviewFinished ==
    /\ \E sound \in playing :
         playing' = playing \ {sound}
    /\ playingId' = ""
    /\ soundRef' = NoSound
    /\ UNCHANGED <<mounted, silentMode, loaded, nextSound, calls, playsLeft,
                   overlapped, faulted>>
    /\ UNCHANGED <<downloadedVoices, storedAdhanVoices, downloads, previews>>
    /\ UNCHANGED <<schedVars, voiceVars, appVars, runVars>>

NextPreview ==
    \/ PlayPreviewBegin
    \/ PreviewStep
    \/ PreviewFinished

\* the previews of the selector, with each tap taken await by await
SpecPreview == InitPreview /\ [][NextPreview]_vars

\* --------------------------------------------------------- resolver actions
\* the stored selections and the downloaded adhan files are the resolver's
\* inputs: any value of the two keys, any set of downloaded catalogue voices
InitResolve ==
    /\ SchedIdle
    /\ PlayIdle
    /\ AsyncIdle
    /\ downloaded = <<>>
    /\ activeVoice = NoVoice
    /\ lastVoice = NoVoiceOp
    /\ lastResolve = NoResolve
    /\ selected \in [regular : SelectionValues, fajr : SelectionValues]
    /\ files \in SUBSET {AdhanPath(v.id) : v \in ADHAN_VOICES}

ResolveAdhanUrl ==
    /\ \E prayerName \in PrayerNameInputs, F \in SUBSET ResolverFaults :
         LET r == getAdhanUrlForPrayer(prayerName, selected, files, F)
         IN  lastResolve' = [op |-> "getAdhanUrlForPrayer", prayerName |-> prayerName,
                             failed |-> F, threw |-> r.threw, url |-> r.url]
    /\ UNCHANGED <<downloaded, files, activeVoice, selected, lastVoice, schedVars, playVars, asyncVars>>

\* AdhanVoiceSelector.saveSelection(voiceId, type) for a voice of the tab
SaveSelection ==
    /\ \E voice \in ADHAN_VOICES, setItemThrows \in BOOLEAN :
         selected' = IF setItemThrows THEN selected
                     ELSE [selected EXCEPT ![voice.type] = voice.id]
    /\ UNCHANGED <<downloaded, files, activeVoice, lastVoice, lastResolve, schedVars, playVars, asyncVars>>

NextResolve ==
    \/ ResolveAdhanUrl
    \/ SaveSelection

\* the resolver on its own
SpecResolve == InitResolve /\ [][NextResolve]_vars

\* --------------------------------------------------------- playback actions
\* the voicePath of a notification's payload: absent, or the reference the
\* mounted component's onSchedule attaches
Payloads ==
    {NoPath} \cup (IF mounted = "AppMain:137" THEN {VoicePath(VoiceCatalogue[1])}
                   ELSE {Url("azan1")})

\* the registry and the list as an earlier run of onSchedule has left them
ScheduledBefore ==
    scheduleDailyPrayerNotifications([pending |-> {}, stored |-> <<>>, nextId |-> 1],
                                     getPrayerTimesForDate(0), Url("azan1"), 0, {}).s

\* what survives a restart: the alarms and their list, the voice files with
\* their index and the active voice
Persisted ==
    /\ pending = ScheduledBefore.pending
    /\ stored = ScheduledBefore.stored
    /\ nextId = ScheduledBefore.nextId
    /\ files \in SUBSET {VoicePath(VoiceCatalogue[1]), SyntheticPath(VoiceCatalogue[1])}
    /\ downloaded = IF VoicePath(VoiceCatalogue[1]) \in files
                    THEN <<VoiceMeta(VoiceCatalogue[1], VoicePath(VoiceCatalogue[1]))>>
                    ELSE <<>>
    /\ activeVoice = IF VoicePath(VoiceCatalogue[1]) \in files
                     THEN VoiceCatalogue[1] ELSE NoVoice
    /\ selected = [regular |-> NoSelection, fajr |-> NoSelection]

InitPlay ==
    /\ now = 0
    /\ prayerTimes = NoTimes
    /\ scheduled = FALSE
    /\ callsLeft = 0
    /\ faults = 0
    /\ lastEffect = "none"
    /\ lastCall = NoCall
    /\ Persisted
    /\ lastVoice = NoVoiceOp
    /\ lastResolve = NoResolve
    /\ mounted \in {"AppMain:137", "AppMain:502"}
    /\ silentMode \in (IF mounted = "AppMain:502" THEN BOOLEAN ELSE {FALSE})
    /\ soundRef = NoSound
    /\ loaded = {}
    /\ playing = {}
    /\ nextSound = 1
    /\ calls = [l \in Listeners |-> NoInvocation]
    /\ playsLeft = MaxPlays
    /\ overlapped = FALSE
    /\ faulted = FALSE
    /\ method = "MuslimWorldLeague"
    /\ effects = <<>>
    /\ timesMethod = ""
    /\ listenerSilent = silentMode
    /\ storedSilent = ""
    /\ RunIdle
    /\ SelIdle

PlayAdhanBeginDismisses(l) ==
    /\ playsLeft > 0
    /\ calls[l].pc = "idle"
    /\ \E voicePath \in Payloads :
         LET c == [NoInvocation EXCEPT !.voicePath = voicePath, !.ran = TRUE]
         IN  IF mounted = "AppMain:502" /\ listenerSilent
             THEN calls' = [calls EXCEPT ![l] = [c EXCEPT !.muted = TRUE]]
             ELSE IF soundRef # NoSound
             THEN calls' = [calls EXCEPT ![l] = [c EXCEPT !.pc = "unloading",
                                                          !.target = soundRef]]
             ELSE \E f \in FirstSources(c) :
                    calls' = [calls EXCEPT ![l] = IssueCreate(c, f)]
    /\ playsLeft' = playsLeft - 1
    /\ overlapped' = (overlapped \/ \E m \in Listeners \ {l} : calls[m].pc # "idle")
    /\ UNCHANGED <<mounted, silentMode, soundRef, loaded, playing, nextSound, faulted,
                   voiceVars, asyncVars>>
    /\ pending' = {}
    /\ UNCHANGED <<now, prayerTimes, scheduled, nextId, stored, callsLeft, faults, lastEffect, lastCall>>

\* a listener calls playAdhan: the code up to its first await
PlayAdhanBegin(l) ==
    /\ playsLeft > 0
    /\ calls[l].pc = "idle"
    /\ \E voicePath \in Payloads :
         LET c == [NoInvocation EXCEPT !.voicePath = voicePath, !.ran = TRUE]
         IN  IF mounted = "AppMain:502" /\ listenerSilent
             THEN calls' = [calls EXCEPT ![l] = [c EXCEPT !.muted = TRUE]]
             ELSE IF soundRef # NoSound
             THEN calls' = [calls EXCEPT ![l] = [c EXCEPT !.pc = "unloading",
                                                          !.target = soundRef]]
             ELSE \E f \in FirstSources(c) :
                    calls' = [calls EXCEPT ![l] = IssueCreate(c, f)]
    /\ playsLeft' = playsLeft - 1
    /\ overlapped' = (overlapped \/ \E m \in Listeners \ {l} : calls[m].pc # "idle")
    /\ UNCHANGED <<mounted, silentMode, soundRef, loaded, playing, nextSound, faulted,
                   schedVars, voiceVars, asyncVars>>

\* await soundRef.current.unloadAsync() settles; a throw is swallowed and
\* leaves the sound as it was; soundRef.current = null either way
UnloadDone(l) ==
    /\ calls[l].pc = "unloading"
    /\ \E ok \in BOOLEAN :
         /\ loaded' = IF ok THEN {s \in loaded : s.id # calls[l].target} ELSE loaded
         /\ playing' = IF ok THEN playing \ {calls[l].target} ELSE playing
         /\ faulted' = (faulted \/ ~ok)
    /\ soundRef' = NoSound
    /\ \E f \in FirstSources(calls[l]) :
         calls' = [calls EXCEPT ![l] = IssueCreate(calls[l], f)]
    /\ UNCHANGED <<mounted, silentMode, nextSound, playsLeft, overlapped,
                   schedVars, voiceVars, asyncVars>>

\* await Audio.Sound.createAsync(..) settles
CreateDone(l) ==
    /\ calls[l].pc = "creating"
    /\ \E ok \in BOOLEAN :
         IF ok
         THEN /\ loaded' = loaded \cup {[id |-> nextSound, by |-> l]}
              /\ nextSound' = nextSound + 1
              /\ soundRef' = nextSound
              /\ calls' = [calls EXCEPT ![l] = [calls[l] EXCEPT !.pc = "starting",
                                                                !.sound = nextSound]]
              /\ UNCHANGED faulted
         ELSE /\ \E c \in AfterFailure([calls[l] EXCEPT
                            !.tried = Append(@, [src |-> calls[l].src, ok |-> FALSE])]) :
                    calls' = [calls EXCEPT ![l] = c]
              /\ faulted' = TRUE
              /\ UNCHANGED <<loaded, nextSound, soundRef>>
    /\ UNCHANGED <<mounted, silentMode, playing, playsLeft, overlapped,
                   schedVars, voiceVars, asyncVars>>

\* await replayAsync() (line 137), await setVolumeAsync(..) and playAsync()
\* (line 502) settle; they throw on a sound that has been unloaded
StartDone(l) ==
    /\ calls[l].pc = "starting"
    /\ LET isLoaded == \E s \in loaded : s.id = calls[l].sound
       IN  \E ok \in BOOLEAN :
             /\ ok => isLoaded
             /\ IF ok
                THEN /\ playing' = playing \cup {calls[l].sound}
                     /\ calls' = [calls EXCEPT ![l] = Return([calls[l] EXCEPT
                            !.started = TRUE,
                            !.tried = Append(@, [src |-> calls[l].src, ok |-> TRUE])])]
                     /\ UNCHANGED faulted
                ELSE /\ \E c \in AfterFailure([calls[l] EXCEPT
                            !.tried = Append(@, [src |-> calls[l].src, ok |-> FALSE])]) :
                           calls' = [calls EXCEPT ![l] = c]
                     /\ faulted' = (faulted \/ isLoaded)
                     /\ UNCHANGED playing
    /\ UNCHANGED <<mounted, silentMode, soundRef, loaded, nextSound, playsLeft, overlapped,
                   schedVars, voiceVars, asyncVars>>

ReceivedListener ==
    \/ PlayAdhanBegin("received")
    \/ UnloadDone("received")
    \/ CreateDone("received")
    \/ StartDone("received")

ResponseListener ==
    \/ PlayAdhanBegin("response")
    \/ UnloadDone("response")
    \/ CreateDone("response")
    \/ StartDone("response")

NextPlay ==
    \/ ReceivedListener
    \/ ResponseListener

\* playback on its own, await by await
SpecPlay == InitPlay /\ [][NextPlay]_vars

\* -------------------------------------------------------- AppMain actions
\* the component has mounted: the listeners are registered with the
\* playAdhan of the first render
Mounted(budget) ==
    /\ now = 0
    /\ scheduled = FALSE
    /\ callsLeft = 0
    /\ faults = 0
    /\ lastCall = NoCall
    /\ Persisted
    /\ lastVoice = NoVoiceOp
    /\ lastResolve = NoResolve
    /\ mounted \in {"AppMain:137", "AppMain:502"}
    /\ silentMode = FALSE
    /\ soundRef = NoSound
    /\ loaded = {}
    /\ playing = {}
    /\ nextSound = 1
    /\ calls = [l \in Listeners |-> NoInvocation]
    /\ playsLeft = budget
    /\ overlapped = FALSE
    /\ faulted = FALSE
    /\ method = METHODS[1]
    /\ listenerSilent = FALSE
    /\ storedSilent \in (IF mounted = "AppMain:502" THEN {"", "true", "false"} ELSE {""})
    /\ RunIdle
    /\ SelIdle

\* both effects have run up to their first await
InitApp ==
    /\ Mounted(0)
    /\ prayerTimes = NoTimes
    /\ timesMethod = ""
    /\ lastEffect = "none"
    /\ effects = IF mounted = "AppMain:502"
                 THEN <<SettingsEffect, TimesEffect(METHODS[1])>>
                 ELSE <<TimesEffect(METHODS[1])>>

\* the mount effect of line 532: the stored flag arrives; a throw is swallowed
LoadSettings ==
    /\ \E i \in DOMAIN effects, ok \in BOOLEAN :
         /\ effects[i].kind = "settings"
         /\ silentMode' = (silentMode \/ (ok /\ storedSilent = "true"))
         /\ effects' = RemoveAt(effects, i)
    /\ UNCHANGED <<mounted, soundRef, loaded, playing, nextSound, calls, playsLeft,
                   overlapped, faulted>>
    /\ UNCHANGED <<method, timesMethod, listenerSilent, storedSilent>>
    /\ UNCHANGED <<schedVars, voiceVars, runVars, selVars>>

\* the run i of the effect of [method] returns with outcome r
EffectReturns(i, r) ==
    /\ prayerTimes' = r.times
    /\ timesMethod' = r.by
    /\ lastEffect' = r.outcome
    /\ effects' = RemoveAt(effects, i)

Unchanged(outcome) == [times |-> prayerTimes, by |-> timesMethod, outcome |-> outcome]

\* an await of a run of the effect of [method] settles
EffectStep ==
    /\ \E i \in DOMAIN effects :
         LET e == effects[i]
             computed == Computed(e, prayerTimes, timesMethod, Today(now))
         IN  /\ e.kind = "times"
             /\ \/ /\ e.pc = "permission"
                   /\ \E status \in {"granted", "denied", "raise"} :
                        IF status = "granted"
                        THEN /\ effects' = [effects EXCEPT ![i].pc = "position"]
                             /\ UNCHANGED <<prayerTimes, timesMethod, lastEffect>>
                        ELSE EffectReturns(i, Unchanged(status))
                \/ /\ e.pc = "position"
                   /\ mounted = "AppMain:137"
                   /\ \E ok \in BOOLEAN :
                        EffectReturns(i, IF ok THEN computed ELSE Unchanged("raise"))
                \/ /\ e.pc = "position"
                   /\ mounted = "AppMain:502"
                   /\ \E pos \in {"ok", "null", "raise"} :
                        IF pos = "ok"
                        THEN /\ effects' = [effects EXCEPT ![i].pc = "geocode"]
                             /\ UNCHANGED <<prayerTimes, timesMethod, lastEffect>>
                        ELSE EffectReturns(i, Unchanged(IF pos = "null" THEN "denied"
                                                        ELSE "raise"))
                \/ /\ e.pc = "geocode"
                   /\ EffectReturns(i, computed)
    /\ UNCHANGED <<now, scheduled, pending, nextId, stored, callsLeft, faults, lastCall>>
    /\ UNCHANGED <<method, listenerSilent, storedSilent>>
    /\ UNCHANGED <<voiceVars, playVars, runVars, selVars>>

\* setMethod(m) from the method list, which is rendered with prayerTimes set
\* and stays on screen until the render of setLoading(true) commits: the
\* cleanup of the last run, then a new run up to its first await, with the
\* listeners registered anew
SetMethod ==
    /\ prayerTimes # NoTimes
    /\ Cardinality({i \in DOMAIN effects : effects[i].kind = "times"}) < MaxEffects
    /\ \E m \in Methods \ {method} :
         /\ method' = m
         /\ effects' = Append(Cleanup(effects), TimesEffect(m))
    /\ listenerSilent' = silentMode
    /\ UNCHANGED <<timesMethod, storedSilent>>
    /\ UNCHANGED <<schedVars, voiceVars, playVars, runVars, selVars>>

\* toggleSilentMode(value) from the switch
ToggleSilentMode ==
    /\ mounted = "AppMain:502"
    /\ prayerTimes # NoTimes
    /\ \E value \in BOOLEAN \ {silentMode}, setItemOk \in BOOLEAN, stopOk \in BOOLEAN :
         /\ silentMode' = value
         /\ storedSilent' = IF ~setItemOk THEN storedSilent
                            ELSE IF value THEN "true" ELSE "false"
         /\ IF setItemOk /\ value /\ soundRef # NoSound
            THEN /\ soundRef' = NoSound
                 /\ playing' = IF stopOk THEN playing \ {soundRef} ELSE playing
                 /\ loaded' = IF stopOk THEN {s \in loaded : s.id # soundRef} ELSE loaded
            ELSE UNCHANGED <<soundRef, playing, loaded>>
    /\ UNCHANGED <<mounted, nextSound, calls, playsLeft, overlapped, faulted>>
    /\ UNCHANGED <<method, effects, timesMethod, listenerSilent>>
    /\ UNCHANGED <<schedVars, voiceVars, runVars, selVars>>

NextEffect ==
    \/ LoadSettings
    \/ EffectStep
    \/ SetMethod

\* the effects of the component on their own
SpecEffect == InitApp /\ [][NextEffect]_vars

\* the component of line 502, which has the switch: the first run of the
\* effect of [method] has stored the times, the stored settings are still
\* being read
InitSilent ==
    /\ Mounted(MaxPlays)
    /\ mounted = "AppMain:502"
    /\ files = {}
    /\ prayerTimes = getPrayerTimesForDate(Today(0))
    /\ timesMethod = METHODS[1]
    /\ lastEffect = "ok"
    /\ effects = <<SettingsEffect>>

NextSilent ==
    \/ LoadSettings
    \/ ToggleSilentMode
    \/ ReceivedListener
    \/ ResponseListener

\* the switch and the listeners of the component, with the method unchanged
SpecSilent == InitSilent /\ [][NextSilent]_vars

\* --------------------------------------------------------------- properties
\* a step that is a completed call of the named scheduling function
CallStep(op) == callsLeft' = callsLeft - 1 /\ lastCall'.op = op

\* a step that is a completed call of cancelAllScheduledNotifications
CancelStep == scheduled /\ ~scheduled'

Ids(alarms) == {a.id : a \in alarms}

DailyReturned == lastCall.op = "scheduleDaily" /\ ~lastCall.threw

\* C1: a daily run that returns right after another daily run that returned,
\* with no alarm fired in between, leaves exactly six alarms pending: the six
\* it has registered itself.
C1_TwoRunsLeaveSix ==
    [][(/\ DailyReturned
        /\ ~lastCall.fired
        /\ CallStep("scheduleDaily")
        /\ ~lastCall'.threw)
       => (/\ Cardinality(pending') = 6
           /\ Ids(pending') = Range(lastCall'.ids))]_vars

\* C2: a daily run given a map whose six instants are all in the past
\* registers six alarms and each of them fires strictly after now.
C2_AllPastGivesFuture ==
    [][(/\ CallStep("scheduleDaily")
        /\ ~lastCall'.threw
        /\ \A n \in Names : prayerTimes[n] <= now)
       => (/\ Len(lastCall'.ids) = 6
           /\ \A i \in 1..Len(lastCall'.ids) :
                \E a \in pending' : a.id = lastCall'.ids[i] /\ a.date > now)]_vars

\* C3: every alarm a daily run registers fires at the input instant when that
\* instant is after now, and at the same wall-clock time of the next calendar
\* day when the input instant is now or earlier.
C3_RollRule ==
    [][CallStep("scheduleDaily")
       => \A i \in 1..Len(lastCall'.ids) :
            \E a \in pending' :
              /\ a.id = lastCall'.ids[i]
              /\ LET dt == prayerTimes[Order[i]]
                 IN  IF dt > now
                     THEN a.date = dt
                     ELSE /\ a.date \div Day = (dt \div Day) + 1
                          /\ a.date % Day = dt % Day]_vars

\* now lies strictly between dhuhr and asr: fajr, sunrise and dhuhr have been
\* rolled to the next day, asr, maghrib and isha stay
C3_Witness ==
    /\ DailyReturned
    /\ prayerTimes # NoTimes
    /\ prayerTimes["dhuhr"] < now
    /\ now < prayerTimes["asr"]
    /\ \A n \in {"fajr", "sunrise", "dhuhr"} :
         \E a \in pending : a.idTag.name = n /\ a.date = prayerTimes[n] + Day
    /\ \A n \in {"asr", "maghrib", "isha"} :
         \E a \in pending : a.idTag.name = n /\ a.date = prayerTimes[n]

\* C4: a daily run that returns has registered exactly six new alarms, one for
\* each of fajr, sunrise, dhuhr, asr, maghrib, isha, and returns their ids in
\* that order.
C4_SixPerRun ==
    [][(CallStep("scheduleDaily") /\ ~lastCall'.threw)
       => LET new == {a \in pending' : a.id >= nextId}
              names == <<"fajr", "sunrise", "dhuhr", "asr", "maghrib", "isha">>
          IN  /\ Cardinality(new) = 6
              /\ Len(lastCall'.ids) = 6
              /\ \A i \in 1..6 :
                   \E a \in new : a.id = lastCall'.ids[i] /\ a.idTag.name = names[i]]_vars

C4_Witness ==
    /\ DailyReturned
    /\ Len(lastCall.ids) = 6
    /\ \A n \in {"fajr", "sunrise", "dhuhr", "asr", "maghrib", "isha"} :
         \E a \in pending : a.id \in Range(lastCall.ids) /\ a.idTag.name = n

\* C5: creating a test alarm (with a delay >= 0) leaves the persisted id list
\* unchanged, and a pending test alarm stays pending in every step but its own
\* firing.
C5_TestAlarmSeparate ==
    [][/\ (CallStep("scheduleTest") /\ lastCall'.arg >= 0) => stored' = stored
       /\ \A a \in pending :
            a.idTag.name = "test"
            => \/ a \in pending'
               \/ (a.date <= now /\ pending' = pending \ {a})]_vars

\* C6: cancelAllScheduledNotifications returns without throwing; when the
\* storage calls succeed it has cancelled every id of the persisted list whose
\* cancel call did not fail and it leaves the persisted list empty, also when
\* the cancel call of some id has failed.
C6_CancelClearsList ==
    [][CancelStep
       => (/\ ~lastCall'.threw
           /\ (\A f \in lastCall'.failed : f.kind = "cancel")
              => (/\ stored' = <<>>
                  /\ \A id \in Range(stored) :
                       Fault("cancel", id) \notin lastCall'.failed
                       => id \notin Ids(pending')))]_vars

\* C7: after a daily run has returned, the persisted id list is the list of
\* the six ids the run has registered.
C7_ListIsTheSixNew ==
    DailyReturned => (Len(stored) = 6 /\ stored = lastCall.ids)

\* C8: once a daily run has returned with none of its calls failing, and no
\* scheduler function has been called since, every prayer has a pending alarm
\* at every later moment.
C8_AlwaysNextOccurrence ==
    (DailyReturned /\ lastCall.failed = {})
    => \A n \in Names : \E a \in pending : a.idTag.name = n

\* C9: when the last prayer-time computation has raised, a scheduling
\* operation fails and touches neither the pending alarms nor the id list.
C9_FailedComputeTouchesNothing ==
    [][(lastEffect = "raise" /\ CallStep("scheduleDaily"))
       => (lastCall'.threw /\ pending' = pending /\ stored' = stored)]_vars

\* C10: scheduleTestNotification with a negative delay fails and changes
\* nothing; with a delay >= 0 it registers one alarm firing at now + delay
\* and returns its id.
C10_TestDelay ==
    [][CallStep("scheduleTest")
       => IF lastCall'.arg < 0
          THEN lastCall'.threw /\ pending' = pending /\ stored' = stored
          ELSE ~lastCall'.threw
               => \E a \in pending' \ pending :
                    /\ pending' = pending \cup {a}
                    /\ a.date = now + lastCall'.arg
                    /\ lastCall'.ids = <<a.id>>]_vars

\* C11: as long as no await has failed on the platform's side, also when two
\* invocations of playAdhan overlap, at most one sound is playing and no
\* sound is created while a sound of the other invocation is still loaded.
C11_SecondCreationAfterUnload ==
    ~faulted => (/\ Cardinality(playing) <= 1
                 /\ \A s, t \in loaded : s.by = t.by)

\* C12: as long as no two invocations of playAdhan have overlapped, at most
\* one sound is loaded at any time, on the error paths too.
C12_OneLoadedHandle ==
    ~overlapped => Cardinality(loaded) <= 1

\* C13: an invocation of playAdhan that has returned (not muted, not
\* overlapped) has stopped at the first source that played; if it has
\* started no playback, then the payload's reference (if given), the bundled
\* asset and the remote last-resort URL have each been tried and have failed.
C13_FallbackChain ==
    \A l \in Listeners :
      LET c == calls[l]
          failedSrcs == {c.tried[i].src : i \in {j \in 1..Len(c.tried) : ~c.tried[j].ok}}
      IN  (c.pc = "idle" /\ c.ran /\ ~c.muted /\ ~overlapped)
          => (/\ \A i \in 1..(Len(c.tried) - 1) : ~c.tried[i].ok
              /\ c.started <=> (Len(c.tried) > 0 /\ c.tried[Len(c.tried)].ok)
              /\ ~c.started
                 => (/\ c.voicePath # NoPath => "payload" \in failedSrcs
                     /\ {"bundled", "remote"} \subseteq failedSrcs))

\* the references getAdhanUrlForPrayer can hand out
References ==
    {v.previewUrl : v \in ADHAN_VOICES} \cup {Url("azan1"), Url("azan7")}
    \cup {AdhanPath(v.id) : v \in ADHAN_VOICES}

\* C14: getAdhanUrlForPrayer does not raise and returns one reference, for
\* every prayer name, every stored selection and every outcome of its storage
\* read and of its file-existence check.
C14_ResolverTotal ==
    lastResolve.op = "getAdhanUrlForPrayer"
    => (~lastResolve.threw /\ lastResolve.url \in References)

\* the storage read and the existence check have both thrown, with an
\* unknown id stored for fajr
C14_Witness ==
    /\ lastResolve.op = "getAdhanUrlForPrayer"
    /\ lastResolve.failed = ResolverFaults
    /\ lastResolve.prayerName = "Fajr"
    /\ selected.fajr = UnknownVoice
    /\ ~lastResolve.threw
    /\ lastResolve.url = Url("azan7")

\* C15: a local path that resolution returns names an existing file: the
\* path of the record getActiveVoice returns, and a path under adhan/ that
\* getAdhanUrlForPrayer returns.
C15_NoDanglingPath ==
    /\ (lastVoice.op = "getActiveVoice" /\ lastVoice.result # NoMeta)
       => lastVoice.result.path \in files
    /\ (/\ lastResolve.op = "getAdhanUrlForPrayer"
        /\ lastResolve.url \in {AdhanPath(v.id) : v \in ADHAN_VOICES})
       => lastResolve.url \in files

\* C16: a getActiveVoice that returns right after downloadVoice(v) has
\* returned its record and setActiveVoice(v) has returned, returns the record
\* of v with the path voices/voice-v.wav, and that file exists.
C16_InstallRoundTrip ==
    (lastVoice.op = "getActiveVoice" /\ lastVoice.installed # "" /\ ~lastVoice.threw)
    => (/\ lastVoice.result = VoiceMeta(lastVoice.installed, VoicePath(lastVoice.installed))
        /\ VoicePath(lastVoice.installed) \in files)

C16_Witness ==
    /\ lastVoice.op = "getActiveVoice"
    /\ lastVoice.installed \in SyntheticIds
    /\ ~lastVoice.threw
    /\ lastVoice.result.id = lastVoice.installed
    /\ lastVoice.result.path \in files

\* C17: after a daily run has returned, the Fajr alarm carries the reference
\* resolved for fajr, the Dhuhr, Asr, Maghrib and Isha alarms carry the
\* reference resolved for their (regular) class, and the Sunrise alarm
\* carries no audio reference.
C17_ReferenceByPrayerClass ==
    DailyReturned
    => \A a \in pending :
         a.id \in Range(lastCall.ids)
         => a.voicePath = IF a.idTag.name = "sunrise" THEN NoPath
                          ELSE getAdhanUrlForPrayer(a.idTag.name, selected, files, {}).url

\* C18: after a removeDownloadedVoice(id) that has returned, the list has no
\* record with id and has kept the others, the file voices/voice-id.wav does
\* not exist, the active pointer is cleared if and only if it was id, and
\* removing id once more changes nothing.
C18_RemovePostcondition ==
    [][(lastVoice'.op = "removeDownloadedVoice" /\ ~lastVoice'.threw)
       => LET id == lastVoice'.id
              after == [downloaded |-> downloaded', files |-> files',
                        activeVoice |-> activeVoice']
              again == removeDownloadedVoice(after, id, "none")
          IN  /\ \A i \in 1..Len(downloaded') : downloaded'[i].id # id
              /\ downloaded' = SelectSeq(downloaded, LAMBDA r : r.id # id)
              /\ VoicePath(id) \notin files'
              /\ files' = files \ {VoicePath(id)}
              /\ activeVoice' = IF activeVoice = id THEN NoVoice ELSE activeVoice
              /\ ~again.threw
              /\ again.v = after]_vars

\* the active voice has been removed; another voice is still installed
C18_Witness ==
    /\ lastVoice.op = "removeDownloadedVoice"
    /\ ~lastVoice.threw
    /\ activeVoice = NoVoice
    /\ VoicePath(lastVoice.id) \notin files
    /\ Len(downloaded) = 1
    /\ downloaded[1].id # lastVoice.id
    /\ downloaded[1].path \in files

C20_ListMatchesFiles ==
    \A id \in VoiceIds :
      (\E i \in 1..Len(downloaded) : downloaded[i].id = id) <=> VoicePath(id) \in files

\* C23: fetchRemoteVoices never throws; it returns the demo list without a
\* URL, the parsed array for an OK response whose body is a JSON array, and
\* the empty list in every other case.
C23_FetchTotal ==
    lastVoice.op = "fetchRemoteVoices"
    => LET f == lastVoice.fetched
       IN  /\ ~lastVoice.threw
           /\ f.list = IF f.url = NoUrl THEN DEMO_REMOTE_LIST
                       ELSE IF /\ ~f.res.rejects
                               /\ f.res.ok
                               /\ f.res.json.kind = "array"
                       THEN f.res.json.items
                       ELSE <<>>

C23_Witness ==
    /\ lastVoice.op = "fetchRemoteVoices"
    /\ lastVoice.fetched.url # NoUrl
    /\ ~lastVoice.fetched.res.rejects
    /\ lastVoice.fetched.res.ok
    /\ lastVoice.fetched.res.json.kind = "invalid"
    /\ lastVoice.fetched.list = <<>>

\* C25: a step of playAdhan called from a notification listener leaves the
\* persisted id list, the pending alarms, the downloaded-voices index and the
\* active and selected voice pointers unchanged.
C25_PlayAdhanFrame ==
    [][(calls' # calls)
       => UNCHANGED <<stored, pending, downloaded, activeVoice, selected>>]_vars

C25_Witness ==
    /\ \E l \in Listeners : calls[l].started
    /\ stored # <<>>
    /\ pending # {}
    /\ downloaded # <<>>
    /\ activeVoice # NoVoice

\* C26: with silent mode switched on and stored by toggleSilentMode(true),
\* and not switched off since, a notification received or tapped starts no
\* playback: the invocation of playAdhan returns muted.
C26_SilentModeHonoured ==
    [][(playsLeft' = playsLeft - 1 /\ silentMode /\ storedSilent = "true")
       => \A l \in Listeners : calls'[l] # calls[l] => calls'[l].muted]_vars

C21_OneRunAtATime ==
    /\ Len(runs) <= 1
    /\ (runs = <<>> /\ faults = 0)
       => (Cardinality(pending) <= MaxEntries /\ Range(stored) = Ids(pending))

\* C24: when a run that is alone in flight registers an alarm, it has issued
\* the cancellation of every id of the old list and removed that list, and
\* it has cancelled no alarm of its own.
C24_CancelBeforeRegister ==
    [][\A k \in DOMAIN runs :
         (/\ k \in DOMAIN runs'
          /\ runs[k].alone
          /\ runs[k].pc = "register"
          /\ runs'[k].pc = "persistGet")
         => (/\ Range(runs[k].listAtStart) \subseteq runs[k].cancelled
             /\ runs[k].listAtStart # <<>> => runs[k].removed
             /\ Range(runs'[k].created) \cap runs'[k].cancelled = {})]_vars

\* C28: once no download is in flight, every voice whose download has
\* succeeded is in the list of its key: DOWNLOADED_ADHAN_VOICES for the
\* selector's downloadVoice, DOWNLOADED_VOICES for the voice store.
C28_NoLostDownload ==
    (\A k \in DOMAIN downloads : downloads[k].at = 0)
    => \A k \in DOMAIN downloads :
         downloads[k].ok
         => IF downloads[k].fn = "selector.downloadVoice"
            THEN downloads[k].id \in Range(storedAdhanVoices)
            ELSE downloads[k].id \in {m.id : m \in Range(downloaded)}

\* C30: as long as no call of the platform has failed, at most one preview
\* sound is playing, and with no tap in flight soundRef refers to the sound
\* that is playing, so that stopPlaying stops it.
C30_OnePreviewSound ==
    ~faulted
    => /\ Cardinality(playing) <= 1
       /\ (previews = <<>> /\ playing # {}) => soundRef \in playing

\* C22: with no scheduler operation in flight, the ids of the persisted list
\* are exactly the ids of the daily alarms that are pending.
\* (states reached by scheduleDaily, cancelAll and alarm firings only)
C22_ListIsExactRecord ==
    lastCall.op \in {"scheduleDaily", "cancelAll"}
    => Range(stored) = Ids({a \in pending : a.idTag.name \in Names})

\* C27: when onSchedule has set scheduled to true, the daily run before it
\* has returned with all six alarms registered.
C27_ScheduledIsTruthful ==
    [][(CallStep("scheduleDaily") /\ scheduled')
       => (/\ ~lastCall'.threw
           /\ Len(lastCall'.ids) = 6
           /\ Range(lastCall'.ids) \subseteq Ids(pending'))]_vars

TypeOK ==
    /\ now \in 0..MaxNow
    /\ scheduled \in BOOLEAN
    /\ callsLeft \in 0..MaxRepeatCalls
    /\ faults \in 0..MaxFaults
    /\ activeVoice \in VoiceIds \cup {NoVoice}
    /\ \A i \in 1..Len(downloaded) : downloaded[i].id \in VoiceIds
    /\ selected \in [regular : SelectionValues, fajr : SelectionValues]
    /\ mounted \in {"AppMain:137", "AppMain:502"}
    /\ soundRef \in 0..(nextSound - 1)
    /\ playing \subseteq {s.id : s \in loaded}
    /\ playsLeft \in 0..MaxPlays
    /\ \A l \in Listeners : calls[l].pc \in {"idle", "unloading", "creating", "starting"}
====
